---- MODULE Spec2Model ----
(***************************************************************************)
(* Randomness derivation of eudico (package rand, chain/rand/rand.go).     *)
(*                                                                         *)
(* A randomness source (stateRand) is built by NewStateRand over a chain   *)
(* store, a fixed block key, a beacon schedule and a network-version       *)
(* getter.  GetChainRandomness and GetBeaconRandomness locate an anchor    *)
(* tipset for the requested epoch, pick a base value (a ticket's VRF proof *)
(* or a beacon entry) and hash it with the caller's tag, epoch and entropy.*)
(*                                                                         *)
(* A request is modelled step by step: every call into the chain store is  *)
(* one action, so that store failures can be injected at each call.        *)
(***************************************************************************)
EXTENDS Integers, Sequences, FiniteSets, TLC

(***************************************************************************)
(* Bounds of the model.                                                    *)
(***************************************************************************)
TopHeight == 22        \* height of the last tipset of the stored chain
MaxGap == 2            \* longest run of null rounds right below the top
RoundBase == 100       \* beacon round that the schedule maps epoch 0 to
PreGenesis == 2        \* how far before genesis a requested epoch may lie

(***************************************************************************)
(* Program constants.                                                      *)
(***************************************************************************)
Version13 == 13
Version14 == 14
ScanBound == 20

Tags == {1, 2}
Entropies == {<<>>, <<7>>}
StoreErrors == {"unavailable", "cancelled"}

VARIABLES
    chain,      \* the chain store: tipsets by key (index); key 0 is the empty key
    head,       \* the chain store's current head (key of the heaviest tipset)
    nvSched,    \* upgrade schedule behind the network-version getter
    consensus,  \* process-wide consensus algorithm (package global)
    warnings,   \* number of danger warnings logged so far
    sr,         \* the randomness source built by NewStateRand
    rq,         \* a request in flight on the source
    rq2         \* a second request in flight on the same source

vars == <<chain, head, nvSched, consensus, warnings, sr, rq, rq2>>

(***************************************************************************)
(* Values.                                                                 *)
(***************************************************************************)
Nil == <<>>
NoErr == [kind |-> "nil", cause |-> "nil"]
Err(k, c) == [kind |-> k, cause |-> c]
NoEntry == [Round |-> 0, Data |-> 0]

(***************************************************************************)
(* Chain data.  A tipset has a height and a sequence of blocks ordered by  *)
(* ticket; a block has a ticket (VRF proof) and beacon entries.  The       *)
(* parent of the tipset with key k is the tipset with key k - 1; the       *)
(* genesis tipset (key 1) has the empty key 0 as parent.                   *)
(***************************************************************************)
RoundOf(e) == e + RoundBase

VRFProofOf(h, b) == 10 * h + b
DataOf(h, b, k) == 1000 + 100 * h + 10 * b + k

\* entries a producer at height h with parent height p attaches: one per
\* epoch since the parent, for the rounds of the epochs `lag` ahead.
\* Tipsets differ by height: one block that also carries the round of the
\* next epoch; two blocks with the same entries; two blocks of which only the
\* second carries entries (its own and a repeat of the previous round); one
\* block that repeats an older round before its own.
OwnEntries(h, p, b, lag) ==
    [k \in 1..(h - p) |-> [Round |-> RoundOf(p + k + lag), Data |-> DataOf(h, b, k)]]

Block(h, b, entries) ==
    [Ticket |-> [VRFProof |-> VRFProofOf(h, b)], BeaconEntries |-> entries]

MkTipSet(h, p, lag) ==
    [height |-> h,
     blocks |->
        CASE h % 4 = 0 -> << Block(h, 1,
                                OwnEntries(h, p, 1, lag) \o
                                << [Round |-> RoundOf(h + 1 + lag), Data |-> DataOf(h, 1, 9)] >>) >>
          [] h % 4 = 1 -> << Block(h, 1, OwnEntries(h, p, 1, lag)),
                             Block(h, 2, OwnEntries(h, p, 2, lag)) >>
          [] h % 4 = 2 -> << Block(h, 1, << >>),
                             Block(h, 2,
                                OwnEntries(h, p, 2, lag) \o
                                << [Round |-> RoundOf(h - 1 + lag), Data |-> DataOf(h, 2, 9)] >>) >>
          [] OTHER     -> << Block(h, 1,
                                << [Round |-> RoundOf(h - 3 + lag), Data |-> DataOf(h, 1, 9)] >>
                                \o OwnEntries(h, p, 1, lag)) >> ]

HeightAt(i, gl) == IF i <= TopHeight - gl THEN i - 1 ELSE TopHeight

MkChain(gl, lag) ==
    [i \in 1..(TopHeight + 1 - gl) |->
        MkTipSet(HeightAt(i, gl), IF i = 1 THEN -1 ELSE HeightAt(i - 1, gl), lag)]

Lags == {0, 1, ScanBound - 1, ScanBound, ScanBound + 1}

\* requested epochs: before genesis, genesis, and around the top of the chain
Epochs == {0 - PreGenesis, 0} \cup ((TopHeight - 4)..(TopHeight + 1))

\* upgrade schedules: the epochs at which versions 13, 14 and 15 start; an
\* upgrade is in force from before every requested epoch (Always), after
\* all of them (Never), or in between
Always == 0 - PreGenesis - 1
Never == TopHeight + 2
Schedules ==
    { [u13 |-> Never, u14 |-> Never, u15 |-> Never],
      [u13 |-> Always, u14 |-> Never, u15 |-> Never],
      [u13 |-> Always, u14 |-> Always, u15 |-> Always],
      [u13 |-> TopHeight - 3, u14 |-> TopHeight - 2, u15 |-> TopHeight] }


(***************************************************************************)
(* Collaborators of the engine: chain store, tipset, beacon schedule and   *)
(* network-version getter.                                                 *)
(***************************************************************************)
Height(k) == chain[k].height
Blocks(k) == chain[k].blocks
Parents(k) == k - 1

\* LoadTipSet(key): the tipset stored under the key, or an error
LoadTipSet(k) ==
    IF k \in 1..Len(chain)
    THEN [ok |-> TRUE, ts |-> k, err |-> NoErr]
    ELSE [ok |-> FALSE, ts |-> 0, err |-> Err("store", "notfound")]

\* GetTipsetByHeight(h, ts, prev): the tipset at height h on the chain behind
\* ts; when h is a null round, the tipset before the gap if prev, the first
\* tipset after the gap otherwise
GetTipsetByHeight(h, ts, prev) ==
    IF h < 0 \/ h > Height(ts)
    THEN [ok |-> FALSE, ts |-> 0, err |-> Err("store", "badheight")]
    ELSE LET after == CHOOSE k \in 1..ts :
                          /\ Height(k) >= h
                          /\ \A j \in 1..ts : Height(j) >= h => j >= k
         IN  IF Height(after) = h \/ ~prev
             THEN [ok |-> TRUE, ts |-> after, err |-> NoErr]
             ELSE LoadTipSet(Parents(after))

\* GetLatestBeaconEntry(ts): the last entry of the first block of the nearest
\* tipset, from ts backwards, whose first block carries entries
RECURSIVE GetLatestBeaconEntry(_)
GetLatestBeaconEntry(ts) ==
    LET cbe == Blocks(ts)[1].BeaconEntries
    IN  IF Len(cbe) > 0
        THEN [ok |-> TRUE, be |-> cbe[Len(cbe)], at |-> ts, err |-> NoErr]
        ELSE IF Height(ts) = 0
             THEN [ok |-> FALSE, be |-> NoEntry, at |-> 0, err |-> Err("store", "nobeacon")]
             ELSE GetLatestBeaconEntry(Parents(ts))

\* TipSet.MinTicketBlock: the block with the smallest ticket; the first of
\* them wins a tie
RECURSIVE MinTicketFrom(_, _, _)
MinTicketFrom(blks, i, min) ==
    IF i > Len(blks) THEN min
    ELSE MinTicketFrom(blks, i + 1,
            IF blks[i].Ticket.VRFProof < blks[min].Ticket.VRFProof THEN i ELSE min)

MinTicketBlock(ts) == Blocks(ts)[MinTicketFrom(Blocks(ts), 2, 1)]

\* beacon.Schedule.BeaconForEpoch(e).MaxBeaconRoundForEpoch(nv, e)
MaxBeaconRoundForEpoch(nv, e) == RoundOf(e)

\* the node's upgrade schedule behind NetworkVersionGetter
networkVersionGetter(e) ==
    IF e >= nvSched.u15 THEN 15
    ELSE IF e >= nvSched.u14 THEN 14
    ELSE IF e >= nvSched.u13 THEN 13
    ELSE 12

(***************************************************************************)
(* DrawRandomness: blake2b-256 over                                        *)
(*   be64(pers) || blake2b-256(rbase) || be64(round) || entropy.           *)
(* A digest is named by the message it was computed from.  The 32 bytes of *)
(* the inner digest are one symbol of the message, outside the byte range. *)
(***************************************************************************)
\* binary.Write(h, binary.BigEndian, int64): two's complement, 8 bytes,
\* most significant first
RECURSIVE BigEndian(_, _)
BigEndian(x, n) ==
    IF n = 0 THEN << >>
    ELSE Append(BigEndian(x \div 256, n - 1), x % 256)

\* variant: the magnitude is written, the sign is lost
Int64BytesUnsigned(x) == BigEndian(IF x < 0 THEN 0 - x ELSE x, 8)

\* binary.Write(h, binary.BigEndian, int64(x))
Int64Bytes(x) == BigEndian(x, 8)

Sum256(rbase) == 256 + rbase

\* variant: the base is written as it is, not its digest
DrawRandomnessRawBase(rbase, pers, round, entropy) ==
    << [blake2b |-> Int64Bytes(pers) \o << rbase >> \o Int64Bytes(round) \o entropy] >>

\* variant: the tag is written as one byte
DrawRandomnessByteTag(rbase, pers, round, entropy) ==
    << [blake2b |-> << pers % 256 >> \o << Sum256(rbase) >> \o Int64Bytes(round) \o entropy] >>

\* the digest of the bytes written: tag, digest of the base, round, entropy
DrawRandomness(rbase, pers, round, entropy) ==
    << [blake2b |-> Int64Bytes(pers) \o << Sum256(rbase) >> \o Int64Bytes(round) \o entropy] >>


(***************************************************************************)
(* Decisions of the engine.                                                *)
(***************************************************************************)
\* variant: the check lets the epoch right after the start through
futureRoundLate(round, ts) == round > Height(ts) + 1

\* variant: the round is compared with the height of the store's current head
futureRoundHead(round, ts) == round > Height(head)

\* GetBeaconRandomnessTipset: round > ts.Height()
futureRound(round, ts) == round > Height(ts)

\* variant: negative epochs are not clamped
searchHeightNoClamp(round) == round

\* variant: negative epochs are clamped to 1
searchHeightClampOne(round) == IF round < 0 THEN 1 ELSE round

\* variant: the search starts one epoch too high
searchHeightOffByOne(round) == IF round < 0 THEN 0 ELSE round + 1

\* GetBeaconRandomnessTipset: searchHeight
searchHeight(round) == IF round < 0 THEN 0 ELSE round

\* getChainRandomness: round > ts.Height()
chainFutureRound(round, ts) == round > Height(ts)

\* variant: the search starts one epoch below the round
chainSearchHeightBelow(round) == IF round <= 0 THEN 0 ELSE round - 1

\* getChainRandomness: searchHeight
chainSearchHeight(round) == IF round < 0 THEN 0 ELSE round

\* variant: the ticket of the last block of the tipset
chainBaseLast(randTs) == Blocks(randTs)[Len(Blocks(randTs))].Ticket.VRFProof

\* getChainRandomness: the base is the ticket of the min-ticket block
chainBase(randTs) == MinTicketBlock(randTs).Ticket.VRFProof

\* variant: the threshold of the beacon axis
chainLookbackV14(nv) == ~(nv >= Version14)

\* GetChainRandomness: lookback flag chosen from the version
chainLookback(nv) == ~(nv >= Version13)

\* variant: the newest algorithm starts one version late
beaconAlgLate(nv, filecoinEpoch) ==
    IF nv > Version14
    THEN IF filecoinEpoch < 0 THEN "V3toV2" ELSE "V3"
    ELSE IF nv = Version13 THEN "V2" ELSE "V1"

\* variant: the newest algorithm has no branch for negative epochs
beaconAlgNoFallback(nv, filecoinEpoch) ==
    IF nv >= Version14
    THEN "V3"
    ELSE IF nv = Version13 THEN "V2" ELSE "V1"

\* variant: the newest algorithm starts one version early
beaconAlgEarly(nv, filecoinEpoch) ==
    IF nv >= Version13
    THEN IF filecoinEpoch < 0 THEN "V3toV2" ELSE "V3"
    ELSE "V1"

\* GetBeaconRandomness and getBeaconRandomnessV3: the algorithm that runs
beaconAlg(nv, filecoinEpoch) ==
    IF nv >= Version14
    THEN IF filecoinEpoch < 0 THEN "V3toV2" ELSE "V3"
    ELSE IF nv = Version13 THEN "V2" ELSE "V1"

\* variant: no path searches with lookback
beaconLookbackNever(alg) == FALSE

\* getBeaconRandomnessV1/V2 and extractBeaconEntryForEpoch: lookback flag
beaconLookback(alg) == alg = "V1"

\* variant: an entry of a later round is taken for the target
RECURSIVE matchFromGE(_, _, _)
matchFromGE(cbe, round, j) ==
    IF j > Len(cbe) THEN 0
    ELSE IF cbe[j].Round >= round THEN j
    ELSE matchFromGE(cbe, round, j + 1)

\* extractBeaconEntryForEpoch: first entry of cbe whose round is the target,
\* 0 when there is none
RECURSIVE matchFrom(_, _, _)
matchFrom(cbe, round, j) ==
    IF j > Len(cbe) THEN 0
    ELSE IF cbe[j].Round = round THEN j
    ELSE matchFrom(cbe, round, j + 1)

\* variant: the entries of the last block of the tipset
scanEntriesLast(randTs) == Blocks(randTs)[Len(Blocks(randTs))].BeaconEntries

\* extractBeaconEntryForEpoch: cbe, the entries of the first block
scanEntries(randTs) == Blocks(randTs)[1].BeaconEntries

scanMatch(randTs, round) == matchFrom(scanEntries(randTs), round, 1)

\* variant: the loop stops one iteration early
scanContinuesShort(i) == i < ScanBound - 1

\* variant: the loop runs one iteration more
scanContinuesLong(i) == i < ScanBound + 1

\* extractBeaconEntryForEpoch: loop condition
scanContinues(i) == i < ScanBound

(***************************************************************************)
(* State.                                                                  *)
(***************************************************************************)
NoSource == [kind |-> "none", blks |-> 0]

Idle ==
    [pc |-> "idle", op |-> "none", alg |-> "none", pers |-> 0, round |-> 0,
     entropy |-> << >>, lookback |-> FALSE, ts |-> 0, anchor |-> 0,
     randTs |-> 0,
     target |-> 0, i |-> 0, be |-> NoEntry, baseTs |-> 0, base |-> 0,
     result |-> Nil, err |-> NoErr, calls |-> << >>, headAtStart |-> 0]

Call(fn, arg, lookback, ok, cause) ==
    [fn |-> fn, arg |-> arg, lookback |-> lookback, ok |-> ok, cause |-> cause]

\* variant: the failure is answered with a zero value next to the error
FailZeroValue(r, e) == [r EXCEPT !.pc = "done", !.result = << [blake2b |-> << >>] >>, !.err = e]

\* variant: the failed step is left to be tried again
FailRetry(r, e) == r

\* return nil, err
Fail(r, e) == [r EXCEPT !.pc = "done", !.result = Nil, !.err = e]

ConsensusAlgorithms == {"filecoin", "mir"}

Init ==
    /\ \E gl \in 0..MaxGap, lag \in Lags : chain = MkChain(gl, lag)
    /\ head = Len(chain) - 1
    /\ nvSched \in Schedules
    /\ consensus \in ConsensusAlgorithms
    /\ warnings = 0
    /\ sr = NoSource
    /\ rq = Idle
    /\ rq2 = Idle

(***************************************************************************)
(* Environment.                                                            *)
(***************************************************************************)
\* the chain store takes the next tipset as its head
AdvanceHead ==
    /\ head < Len(chain)
    /\ head' = head + 1
    /\ UNCHANGED <<chain, nvSched, consensus, warnings, sr, rq, rq2>>

(***************************************************************************)
(* NewStateRand(cs, blks, b, networkVersionGetter)                         *)
(***************************************************************************)
StartKeys == {1, head}

\* global.IsConsensusAlgorithm
IsConsensusAlgorithm(alg) == consensus = alg

\* NewStateRand: the condition of the fake source
useFakeRand == IsConsensusAlgorithm("mir")

\* variant: every one of the three lines logged counts as a warning
logDangerEachLine(w) == w + 3

\* log.Debug("DANGER ZONE! ..."), between two lines of "="
logDanger(w) == w + 1

NewStateRand(blks) ==
    /\ sr = NoSource
    /\ blks \in StartKeys
    /\ IF useFakeRand
       THEN /\ warnings' = logDanger(warnings)
            /\ sr' = [kind |-> "fakeRand", blks |-> 0]
       ELSE /\ warnings' = warnings
            /\ sr' = [kind |-> "stateRand", blks |-> blks]
    /\ UNCHANGED <<chain, head, nvSched, consensus, rq, rq2>>

(***************************************************************************)
(* Requests.  Outcome injects a failure of the store into a call.  Each    *)
(* step is a relation between the request r before and rn after it; it is  *)
(* taken by either of the two requests in flight.                          *)
(***************************************************************************)
Outcomes == {"ok"} \cup StoreErrors

Outcome(out, r) ==
    IF out = "ok" THEN r ELSE [r EXCEPT !.ok = FALSE, !.err = Err("store", out)]

Logged(r, c) == [r EXCEPT !.calls = Append(@, c)]

\* variant: the key of the store's current head
startKeyHead == head

\* types.NewTipSetKey(sr.blks...)
startKey == sr.blks

\* variant: the cause of the failure is dropped
wrapParentLoadOpaque(e) == Err("parentLoad", "nil")

\* variant: a failed parent load is reported as a missing beacon entry
wrapParentLoadNotFound(e) == Err("beaconNotFound", "nil")

\* xerrors.Errorf("failed to load parents ...: %w", err)
wrapParentLoad(e) == Err("parentLoad", e.cause)

\* variant: the version asked for is that of the store's current head
versionEpochHead(filecoinEpoch) == Height(head)

\* sr.networkVersionGetter(ctx, filecoinEpoch): the epoch handed over
versionEpoch(filecoinEpoch) == filecoinEpoch

\* variant: the round to look for is kept where the other request writes it
scanTargetShared(r) == IF rq2.pc = "scan" THEN rq2.target ELSE r.target

\* extractBeaconEntryForEpoch: round, a local of the call
scanTarget(r) == r.target

\* variant: the round written is the height searched for
drawRoundSearchHeight(r) == searchHeight(r.round)

\* DrawRandomness(..., pers, round, entropy): the round handed over
drawRound(r) == r.round

\* GetChainRandomness(ctx, pers, filecoinEpoch, entropy)
GetChainRandomnessStep(r, rn, pers, filecoinEpoch, entropy) ==
    /\ sr.kind = "stateRand"
    /\ r.pc = "idle"
    /\ LET nv == networkVersionGetter(versionEpoch(filecoinEpoch))
       IN  rn = [Idle EXCEPT !.pc = "chainLoad", !.op = "chain", !.alg = "chain",
                             !.pers = pers, !.round = filecoinEpoch,
                             !.entropy = entropy,
                             !.lookback = chainLookback(nv),
                             !.headAtStart = head,
                             !.calls = << Call("networkVersionGetter",
                                               versionEpoch(filecoinEpoch),
                                               FALSE, TRUE, "nil") >>]

\* getChainRandomness: sr.cs.LoadTipSet and the check of the round
chainLoadTipSetStep(r, rn) ==
    /\ r.pc = "chainLoad"
    /\ \E out \in Outcomes :
         LET x == Outcome(out, LoadTipSet(startKey))
             q == Logged(r, Call("LoadTipSet", startKey, FALSE, x.ok, x.err.cause))
         IN  rn = IF ~x.ok THEN Fail(q, x.err)
                  ELSE IF chainFutureRound(r.round, x.ts)
                       THEN Fail([q EXCEPT !.ts = x.ts], Err("future", "nil"))
                       ELSE [q EXCEPT !.pc = "chainByHeight", !.ts = x.ts]

\* getChainRandomness: sr.cs.GetTipsetByHeight, MinTicketBlock, DrawRandomness
chainGetTipsetByHeightStep(r, rn) ==
    /\ r.pc = "chainByHeight"
    /\ \E out \in Outcomes :
         LET h == chainSearchHeight(r.round)
             x == Outcome(out, GetTipsetByHeight(h, r.ts, r.lookback))
             q == Logged(r, Call("GetTipsetByHeight", h, r.lookback, x.ok, x.err.cause))
         IN  rn = IF ~x.ok THEN Fail(q, x.err)
                  ELSE [q EXCEPT !.pc = "done", !.anchor = x.ts, !.randTs = x.ts,
                                 !.baseTs = x.ts,
                                 !.calls = Append(@, Call("MinTicketBlock", x.ts,
                                                          FALSE, TRUE, "nil")),
                                 !.base = chainBase(x.ts),
                                 !.result = DrawRandomness(chainBase(x.ts), r.pers,
                                                           drawRound(r), r.entropy)]

\* GetBeaconRandomness(ctx, pers, filecoinEpoch, entropy)
GetBeaconRandomnessStep(r, rn, pers, filecoinEpoch, entropy) ==
    /\ sr.kind = "stateRand"
    /\ r.pc = "idle"
    /\ LET nv == networkVersionGetter(versionEpoch(filecoinEpoch))
           alg == beaconAlg(nv, filecoinEpoch)
       IN  rn = [Idle EXCEPT !.pc = "tipsetLoad", !.op = "beacon", !.alg = alg,
                             !.pers = pers, !.round = filecoinEpoch,
                             !.entropy = entropy,
                             !.lookback = beaconLookback(alg),
                             !.headAtStart = head,
                             !.calls = << Call("networkVersionGetter",
                                               versionEpoch(filecoinEpoch),
                                               FALSE, TRUE, "nil") >>]

\* GetBeaconRandomnessTipset: sr.cs.LoadTipSet and the check of the round
tipsetLoadTipSetStep(r, rn) ==
    /\ r.pc = "tipsetLoad"
    /\ \E out \in Outcomes :
         LET x == Outcome(out, LoadTipSet(startKey))
             q == Logged(r, Call("LoadTipSet", startKey, FALSE, x.ok, x.err.cause))
         IN  rn = IF ~x.ok THEN Fail(q, x.err)
                  ELSE IF futureRound(r.round, x.ts)
                       THEN Fail([q EXCEPT !.ts = x.ts], Err("future", "nil"))
                       ELSE [q EXCEPT !.pc = "tipsetByHeight", !.ts = x.ts]

\* GetBeaconRandomnessTipset: sr.cs.GetTipsetByHeight; back in the caller,
\* extractBeaconEntryForEpoch asks for the version and the round to look for
tipsetGetTipsetByHeightStep(r, rn) ==
    /\ r.pc = "tipsetByHeight"
    /\ \E out \in Outcomes :
         LET h == searchHeight(r.round)
             x == Outcome(out, GetTipsetByHeight(h, r.ts, r.lookback))
             q == Logged(r, Call("GetTipsetByHeight", h, r.lookback, x.ok, x.err.cause))
             nv == networkVersionGetter(versionEpoch(r.round))
         IN  rn = IF ~x.ok THEN Fail(q, x.err)
                  ELSE IF r.alg = "V3"
                       THEN [q EXCEPT !.pc = "scan", !.anchor = x.ts, !.randTs = x.ts,
                                      !.i = 0,
                                      !.target = MaxBeaconRoundForEpoch(nv, r.round),
                                      !.calls = @ \o
                                         << Call("networkVersionGetter", versionEpoch(r.round),
                                                 FALSE, TRUE, "nil"),
                                            Call("MaxBeaconRoundForEpoch", r.round,
                                                 FALSE, TRUE, "nil") >>]
                       ELSE [q EXCEPT !.pc = "latest", !.anchor = x.ts, !.randTs = x.ts]

\* getBeaconRandomnessV1/V2: sr.cs.GetLatestBeaconEntry and DrawRandomness
getLatestBeaconEntryStep(r, rn) ==
    /\ r.pc = "latest"
    /\ \E out \in Outcomes :
         LET x == Outcome(out, GetLatestBeaconEntry(r.randTs))
             q == Logged(r, Call("GetLatestBeaconEntry", r.randTs, FALSE, x.ok, x.err.cause))
         IN  rn = IF ~x.ok THEN Fail(q, x.err)
                  ELSE [q EXCEPT !.pc = "done", !.be = x.be, !.baseTs = x.at,
                                 !.base = x.be.Data,
                                 !.result = DrawRandomness(x.be.Data, r.pers,
                                                           drawRound(r), r.entropy)]

\* extractBeaconEntryForEpoch: one iteration of the loop; on a match
\* getBeaconRandomnessV3 draws from the entry
scanStepStep(r, rn) ==
    /\ r.pc = "scan"
    /\ scanContinues(r.i)
    /\ LET m == scanMatch(r.randTs, scanTarget(r))
           p == Logged(r, Call("BeaconEntries", r.randTs, FALSE, TRUE, "nil"))
       IN  IF m # 0
           THEN LET v == scanEntries(r.randTs)[m]
                IN  rn = [p EXCEPT !.pc = "done", !.be = v, !.baseTs = r.randTs,
                                   !.base = v.Data,
                                   !.result = DrawRandomness(v.Data, r.pers,
                                                             drawRound(r), r.entropy)]
           ELSE \E out \in Outcomes :
                  LET x == Outcome(out, LoadTipSet(Parents(r.randTs)))
                      q == Logged(p, Call("LoadTipSet", Parents(r.randTs), FALSE,
                                          x.ok, x.err.cause))
                  IN  rn = IF ~x.ok THEN Fail(q, wrapParentLoad(x.err))
                           ELSE [q EXCEPT !.randTs = x.ts, !.i = r.i + 1]

\* extractBeaconEntryForEpoch: the loop ended without a match
scanNotFoundStep(r, rn) ==
    /\ r.pc = "scan"
    /\ ~scanContinues(r.i)
    /\ rn = Fail(r, Err("beaconNotFound", "nil"))

\* the caller takes the result; the source is ready for the next request
ReturnStep(r, rn) ==
    /\ r.pc = "done"
    /\ rn = Idle

(***************************************************************************)
(* The steps of the first request.                                         *)
(***************************************************************************)
GetChainRandomness(pers, filecoinEpoch, entropy) ==
    /\ GetChainRandomnessStep(rq, rq', pers, filecoinEpoch, entropy)
    /\ UNCHANGED <<chain, head, nvSched, consensus, warnings, sr, rq2>>

chainLoadTipSet ==
    /\ chainLoadTipSetStep(rq, rq')
    /\ UNCHANGED <<chain, head, nvSched, consensus, warnings, sr, rq2>>

chainGetTipsetByHeight ==
    /\ chainGetTipsetByHeightStep(rq, rq')
    /\ UNCHANGED <<chain, head, nvSched, consensus, warnings, sr, rq2>>

GetBeaconRandomness(pers, filecoinEpoch, entropy) ==
    /\ GetBeaconRandomnessStep(rq, rq', pers, filecoinEpoch, entropy)
    /\ UNCHANGED <<chain, head, nvSched, consensus, warnings, sr, rq2>>

tipsetLoadTipSet ==
    /\ tipsetLoadTipSetStep(rq, rq')
    /\ UNCHANGED <<chain, head, nvSched, consensus, warnings, sr, rq2>>

tipsetGetTipsetByHeight ==
    /\ tipsetGetTipsetByHeightStep(rq, rq')
    /\ UNCHANGED <<chain, head, nvSched, consensus, warnings, sr, rq2>>

getLatestBeaconEntry ==
    /\ getLatestBeaconEntryStep(rq, rq')
    /\ UNCHANGED <<chain, head, nvSched, consensus, warnings, sr, rq2>>

scanStep ==
    /\ scanStepStep(rq, rq')
    /\ UNCHANGED <<chain, head, nvSched, consensus, warnings, sr, rq2>>

scanNotFound ==
    /\ scanNotFoundStep(rq, rq')
    /\ UNCHANGED <<chain, head, nvSched, consensus, warnings, sr, rq2>>

Return ==
    /\ ReturnStep(rq, rq')
    /\ UNCHANGED <<chain, head, nvSched, consensus, warnings, sr, rq2>>

Next ==
    \/ AdvanceHead
    \/ \E blks \in StartKeys : NewStateRand(blks)
    \/ \E pers \in Tags, e \in Epochs, entropy \in Entropies :
          GetChainRandomness(pers, e, entropy)
    \/ chainLoadTipSet
    \/ chainGetTipsetByHeight
    \/ \E pers \in Tags, e \in Epochs, entropy \in Entropies :
          GetBeaconRandomness(pers, e, entropy)
    \/ tipsetLoadTipSet
    \/ tipsetGetTipsetByHeight
    \/ getLatestBeaconEntry
    \/ scanStep
    \/ scanNotFound
    \/ Return

Spec == Init /\ [][Next]_vars

\* a request whose collaborator calls return takes its next step
RequestStep ==
    \/ chainLoadTipSet
    \/ chainGetTipsetByHeight
    \/ tipsetLoadTipSet
    \/ tipsetGetTipsetByHeight
    \/ getLatestBeaconEntry
    \/ scanStep
    \/ scanNotFound

FairSpec == Spec /\ WF_vars(RequestStep)

(***************************************************************************)
(* Two requests in flight on the same source: the steps of the second      *)
(* request, and the specification that interleaves the two.                *)
(***************************************************************************)
GetChainRandomness2(pers, filecoinEpoch, entropy) ==
    /\ GetChainRandomnessStep(rq2, rq2', pers, filecoinEpoch, entropy)
    /\ UNCHANGED <<chain, head, nvSched, consensus, warnings, sr, rq>>

chainLoadTipSet2 ==
    /\ chainLoadTipSetStep(rq2, rq2')
    /\ UNCHANGED <<chain, head, nvSched, consensus, warnings, sr, rq>>

chainGetTipsetByHeight2 ==
    /\ chainGetTipsetByHeightStep(rq2, rq2')
    /\ UNCHANGED <<chain, head, nvSched, consensus, warnings, sr, rq>>

GetBeaconRandomness2(pers, filecoinEpoch, entropy) ==
    /\ GetBeaconRandomnessStep(rq2, rq2', pers, filecoinEpoch, entropy)
    /\ UNCHANGED <<chain, head, nvSched, consensus, warnings, sr, rq>>

tipsetLoadTipSet2 ==
    /\ tipsetLoadTipSetStep(rq2, rq2')
    /\ UNCHANGED <<chain, head, nvSched, consensus, warnings, sr, rq>>

tipsetGetTipsetByHeight2 ==
    /\ tipsetGetTipsetByHeightStep(rq2, rq2')
    /\ UNCHANGED <<chain, head, nvSched, consensus, warnings, sr, rq>>

getLatestBeaconEntry2 ==
    /\ getLatestBeaconEntryStep(rq2, rq2')
    /\ UNCHANGED <<chain, head, nvSched, consensus, warnings, sr, rq>>

scanStep2 ==
    /\ scanStepStep(rq2, rq2')
    /\ UNCHANGED <<chain, head, nvSched, consensus, warnings, sr, rq>>

scanNotFound2 ==
    /\ scanNotFoundStep(rq2, rq2')
    /\ UNCHANGED <<chain, head, nvSched, consensus, warnings, sr, rq>>

Return2 ==
    /\ ReturnStep(rq2, rq2')
    /\ UNCHANGED <<chain, head, nvSched, consensus, warnings, sr, rq>>

\* the chains, schedules and requests of the two-request specification
ConcEpochs == {0 - PreGenesis, TopHeight - 2, TopHeight - 1}
ConcLags == {1, ScanBound}
ConcTag == 1
ConcEntropy == << 7 >>

InitConc ==
    /\ \E lag \in ConcLags : chain = MkChain(MaxGap, lag)
    /\ head = Len(chain) - 1
    /\ nvSched \in Schedules
    /\ consensus = "filecoin"
    /\ warnings = 0
    /\ sr = NoSource
    /\ rq = Idle
    /\ rq2 = Idle

NextConc ==
    \/ AdvanceHead
    \/ \E blks \in StartKeys : NewStateRand(blks)
    \/ \E e \in ConcEpochs : GetChainRandomness(ConcTag, e, ConcEntropy)
    \/ \E e \in ConcEpochs : GetChainRandomness2(ConcTag, e, ConcEntropy)
    \/ chainLoadTipSet
    \/ chainLoadTipSet2
    \/ chainGetTipsetByHeight
    \/ chainGetTipsetByHeight2
    \/ \E e \in ConcEpochs : GetBeaconRandomness(ConcTag, e, ConcEntropy)
    \/ \E e \in ConcEpochs : GetBeaconRandomness2(ConcTag, e, ConcEntropy)
    \/ tipsetLoadTipSet
    \/ tipsetLoadTipSet2
    \/ tipsetGetTipsetByHeight
    \/ tipsetGetTipsetByHeight2
    \/ getLatestBeaconEntry
    \/ getLatestBeaconEntry2
    \/ scanStep
    \/ scanStep2
    \/ scanNotFound
    \/ scanNotFound2
    \/ Return
    \/ Return2

SpecConc == InitConc /\ [][NextConc]_vars

(***************************************************************************)
(* The process-wide consensus flag is a mutable global: the specification  *)
(* below lets the process set it again while a source is in use.           *)
(***************************************************************************)
\* global.SetConsensusAlgorithm
SetConsensusAlgorithm(alg) ==
    /\ alg \in ConsensusAlgorithms
    /\ alg # consensus
    /\ consensus' = alg
    /\ UNCHANGED <<chain, head, nvSched, warnings, sr, rq, rq2>>

InitFlag ==
    /\ \E lag \in ConcLags : chain = MkChain(MaxGap, lag)
    /\ head = Len(chain) - 1
    /\ nvSched \in Schedules
    /\ consensus \in ConsensusAlgorithms
    /\ warnings = 0
    /\ sr = NoSource
    /\ rq = Idle
    /\ rq2 = Idle

NextFlag ==
    \/ \E alg \in ConsensusAlgorithms : SetConsensusAlgorithm(alg)
    \/ AdvanceHead
    \/ \E blks \in StartKeys : NewStateRand(blks)
    \/ \E e \in ConcEpochs : GetChainRandomness(ConcTag, e, ConcEntropy)
    \/ chainLoadTipSet
    \/ chainGetTipsetByHeight
    \/ \E e \in ConcEpochs : GetBeaconRandomness(ConcTag, e, ConcEntropy)
    \/ tipsetLoadTipSet
    \/ tipsetGetTipsetByHeight
    \/ getLatestBeaconEntry
    \/ scanStep
    \/ scanNotFound
    \/ Return

SpecFlag == InitFlag /\ [][NextFlag]_vars

(***************************************************************************)
(* DrawRandomness is exported: a caller may hand it any base, tag, round   *)
(* and entropy.  The specification below makes two such calls side by side.*)
(***************************************************************************)
MaxRound == 5
DrawTags == {1, 2, 257}
DrawRounds == ((0 - MaxRound)..MaxRound) \cup {0 - 256, 256}
DrawBases == {0, 1}
DrawEntropies == {<< >>, << 0 >>, << 7 >>}

\* DrawRandomness(rbase, pers, round, entropy)
DrawRandomnessStep(r, rn, rbase, pers, round, entropy) ==
    /\ r.pc = "idle"
    /\ rn = [Idle EXCEPT !.pc = "done", !.op = "draw", !.alg = "draw",
                         !.pers = pers, !.round = round, !.entropy = entropy,
                         !.base = rbase,
                         !.result = DrawRandomness(rbase, pers, round, entropy)]

DrawRandomnessCall(rbase, pers, round, entropy) ==
    /\ DrawRandomnessStep(rq, rq', rbase, pers, round, entropy)
    /\ UNCHANGED <<chain, head, nvSched, consensus, warnings, sr, rq2>>

DrawRandomnessCall2(rbase, pers, round, entropy) ==
    /\ DrawRandomnessStep(rq2, rq2', rbase, pers, round, entropy)
    /\ UNCHANGED <<chain, head, nvSched, consensus, warnings, sr, rq>>

InitDraw ==
    /\ chain = MkChain(0, 0)
    /\ head = Len(chain) - 1
    /\ nvSched = [u13 |-> Always, u14 |-> Always, u15 |-> Always]
    /\ consensus = "filecoin"
    /\ warnings = 0
    /\ sr = NoSource
    /\ rq = Idle
    /\ rq2 = Idle

NextDraw ==
    \/ \E rbase \in DrawBases, pers \in DrawTags, round \in DrawRounds,
          entropy \in DrawEntropies : DrawRandomnessCall(rbase, pers, round, entropy)
    \/ \E rbase \in DrawBases, pers \in DrawTags, round \in DrawRounds,
          entropy \in DrawEntropies : DrawRandomnessCall2(rbase, pers, round, entropy)
    \/ Return
    \/ Return2

SpecDraw == InitDraw /\ [][NextDraw]_vars

(***************************************************************************)
(* A long chain with a run of null rounds that ends at ScenarioEpoch, the  *)
(* next tipset one epoch later, served under versions below V14.           *)
(***************************************************************************)
ScenarioEpoch == 100
ScenarioGap == 3

ScenarioHeightAt(i) ==
    IF i <= ScenarioEpoch + 1 - ScenarioGap THEN i - 1 ELSE ScenarioEpoch + 1

ScenarioChain(lag) ==
    [i \in 1..(ScenarioEpoch + 2 - ScenarioGap) |->
        MkTipSet(ScenarioHeightAt(i),
                 IF i = 1 THEN -1 ELSE ScenarioHeightAt(i - 1), lag)]

ScenarioEpochs == (ScenarioEpoch - ScenarioGap)..(ScenarioEpoch + 2)

ScenarioSchedules ==
    { [u13 |-> ScenarioEpoch + 3, u14 |-> ScenarioEpoch + 3, u15 |-> ScenarioEpoch + 3],
      [u13 |-> ScenarioEpoch, u14 |-> ScenarioEpoch + 3, u15 |-> ScenarioEpoch + 3],
      [u13 |-> Always, u14 |-> ScenarioEpoch + 3, u15 |-> ScenarioEpoch + 3] }

InitScenario ==
    /\ \E lag \in {0, 1} : chain = ScenarioChain(lag)
    /\ head = Len(chain) - 1
    /\ nvSched \in ScenarioSchedules
    /\ consensus = "filecoin"
    /\ warnings = 0
    /\ sr = NoSource
    /\ rq = Idle
    /\ rq2 = Idle

NextScenario ==
    \/ AdvanceHead
    \/ \E blks \in StartKeys : NewStateRand(blks)
    \/ \E pers \in Tags, e \in ScenarioEpochs, entropy \in Entropies :
          GetChainRandomness(pers, e, entropy)
    \/ chainLoadTipSet
    \/ chainGetTipsetByHeight
    \/ \E pers \in Tags, e \in ScenarioEpochs, entropy \in Entropies :
          GetBeaconRandomness(pers, e, entropy)
    \/ tipsetLoadTipSet
    \/ tipsetGetTipsetByHeight
    \/ getLatestBeaconEntry
    \/ Return

SpecScenario == InitScenario /\ [][NextScenario]_vars

(***************************************************************************)
(* Properties.                                                             *)
(***************************************************************************)
Clamp(e) == IF e < 0 THEN 0 ELSE e

\* the tipset behind ts (ts included) with the greatest height <= h
AtOrBefore(h, ts) ==
    CHOOSE k \in 1..ts : Height(k) <= h /\ \A j \in 1..ts : Height(j) <= h => j <= k

\* the tipset behind ts (ts included) with the least height >= h
AtOrAfter(h, ts) ==
    CHOOSE k \in 1..ts : Height(k) >= h /\ \A j \in 1..ts : Height(j) >= h => j >= k

Succeeded == rq.pc = "done" /\ rq.result # Nil
NullRound(e, ts) == \A k \in 1..ts : Height(k) # e

\* C1: a request (chain or beacon, any version) whose target epoch is greater
\* than the height of the starting tipset ends, right after that tipset was
\* loaded, with the error "cannot draw randomness from the future" and no
\* randomness.
C1_FutureEpochFails ==
    (rq.ts # 0 /\ rq.round > Height(rq.ts)) =>
        /\ rq.pc = "done"
        /\ rq.err = Err("future", "nil")
        /\ rq.result = Nil

C1_Witness ==
    /\ rq.pc = "done" /\ rq.op = "chain" /\ rq.ts = Len(chain)
    /\ rq.round = Height(rq.ts) + 1
    /\ rq.err.kind = "future"

C4_NegativeEpoch ==
    rq.round < 0 =>
        /\ rq.err.kind # "future"
        /\ \A n \in DOMAIN rq.calls :
              rq.calls[n].fn = "GetTipsetByHeight" => rq.calls[n].arg = 0
        /\ (rq.pc = "done" /\ rq.ts # 0) =>
              \E n \in DOMAIN rq.calls : rq.calls[n].fn = "GetTipsetByHeight"

C4_Witness ==
    /\ rq.pc = "done" /\ rq.round < 0 /\ rq.ts # 0 /\ Height(rq.ts) = 0
    /\ Succeeded
    /\ \E n \in DOMAIN rq.calls :
          rq.calls[n].fn = "GetTipsetByHeight" /\ rq.calls[n].arg = 0


HasCall(fn) == \E n \in DOMAIN rq.calls : rq.calls[n].fn = fn
AllCallsOk == \A n \in DOMAIN rq.calls : rq.calls[n].ok

FirstEntries(k) == Blocks(k)[1].BeaconEntries

\* the first block of tipset k carries an entry of round r
CarriesRound(k, r) ==
    \E j \in DOMAIN FirstEntries(k) : FirstEntries(k)[j].Round = r

\* the first entry of round r in the first block of tipset k
FirstCarried(k, r) ==
    LET j == CHOOSE n \in DOMAIN FirstEntries(k) :
                 /\ FirstEntries(k)[n].Round = r
                 /\ \A m \in 1..(n - 1) : FirstEntries(k)[m].Round # r
    IN  FirstEntries(k)[j]

\* a block of tipset k other than the first carries the entry v
InOtherBlock(k, v) ==
    \E b \in 2..Len(Blocks(k)) :
        \E j \in DOMAIN Blocks(k)[b].BeaconEntries : Blocks(k)[b].BeaconEntries[j] = v

\* C5: GetBeaconRandomness picks its algorithm from the version v of the
\* target epoch alone: v >= V14 with epoch >= 0 asks MaxBeaconRoundForEpoch
\* for the round and draws from the entry the backward scan finds; v = V13
\* locates the anchor without lookback and v < V13 with lookback, and both
\* draw from the anchor's latest beacon entry.
C5_BeaconDispatch ==
    rq.op = "beacon" =>
        LET v == networkVersionGetter(rq.round)
            byHeight(lb) ==
                /\ \A n \in DOMAIN rq.calls :
                      rq.calls[n].fn = "GetTipsetByHeight" => rq.calls[n].lookback = lb
                /\ rq.anchor # 0 => HasCall("GetTipsetByHeight")
            latest ==
                /\ ~HasCall("MaxBeaconRoundForEpoch")
                /\ rq.pc # "scan"
                /\ Succeeded =>
                      /\ HasCall("GetLatestBeaconEntry")
                      /\ rq.be = GetLatestBeaconEntry(rq.anchor).be
                      /\ rq.base = rq.be.Data
                      /\ rq.result = DrawRandomness(rq.be.Data, rq.pers, rq.round, rq.entropy)
        IN  /\ (v >= 14 /\ rq.round >= 0) =>
                  /\ ~HasCall("GetLatestBeaconEntry")
                  /\ rq.pc # "latest"
                  /\ rq.anchor # 0 =>
                        /\ HasCall("MaxBeaconRoundForEpoch")
                        /\ rq.target = MaxBeaconRoundForEpoch(v, rq.round)
                  /\ Succeeded =>
                        /\ rq.be.Round = rq.target
                        /\ \E j \in DOMAIN FirstEntries(rq.baseTs) :
                              FirstEntries(rq.baseTs)[j] = rq.be
                        /\ rq.base = rq.be.Data
                        /\ rq.result = DrawRandomness(rq.be.Data, rq.pers, rq.round, rq.entropy)
            /\ v = 13 => byHeight(FALSE) /\ latest
            /\ v < 13 => byHeight(TRUE) /\ latest

C5_Witness ==
    /\ Succeeded /\ rq.op = "beacon"
    /\ networkVersionGetter(rq.round) = 14
    /\ rq.baseTs < rq.anchor
    /\ rq.be.Round = rq.target

\* C6: GetChainRandomness searches the anchor without lookback exactly when
\* the version of the target epoch is >= V13; versions 13, 14 and above all
\* search without lookback.
C6_ChainDispatch ==
    rq.op = "chain" =>
        LET lb == networkVersionGetter(rq.round) < 13
        IN  /\ rq.lookback = lb
            /\ \A n \in DOMAIN rq.calls :
                  rq.calls[n].fn = "GetTipsetByHeight" => rq.calls[n].lookback = lb
            /\ rq.anchor # 0 => HasCall("GetTipsetByHeight")

C6_Witness ==
    /\ Succeeded /\ rq.op = "chain"
    /\ networkVersionGetter(rq.round) = 13
    /\ NullRound(rq.round, rq.ts)
    /\ \E n \in DOMAIN rq.calls :
          rq.calls[n].fn = "GetTipsetByHeight" /\ ~rq.calls[n].lookback

\* C7: on success GetChainRandomness hashes the VRF proof of the ticket of the
\* first block of the anchor tipset.
C7_ChainBase ==
    (Succeeded /\ rq.op = "chain") =>
        /\ rq.base = Blocks(rq.anchor)[1].Ticket.VRFProof
        /\ rq.result = DrawRandomness(Blocks(rq.anchor)[1].Ticket.VRFProof,
                                      rq.pers, rq.round, rq.entropy)

C7_Witness ==
    /\ Succeeded /\ rq.op = "chain"
    /\ Len(Blocks(rq.anchor)) >= 2

\* the tipset k hops behind the anchor is the nearest one to the anchor whose
\* first block carries the target round
NearestAtHop(k) ==
    /\ rq.anchor - k >= 1
    /\ CarriesRound(rq.anchor - k, rq.target)
    /\ \A j \in 0..(k - 1) : ~CarriesRound(rq.anchor - j, rq.target)

ScanEnded == rq.pc = "done" /\ rq.alg = "V3" /\ rq.anchor # 0

\* C8 (as claimed): under the newest algorithm, when no call to the store
\* fails and the nearest tipset carrying the target round in its first block
\* is k hops behind the anchor, 1 <= k <= 20, the request succeeds with that
\* entry, also at hop 20.
C8_ScanFinds_Claimed ==
    (ScanEnded /\ AllCallsOk) =>
        \A k \in 1..20 :
            NearestAtHop(k) =>
                /\ Succeeded
                /\ rq.baseTs = rq.anchor - k
                /\ rq.be = FirstCarried(rq.anchor - k, rq.target)

\* C8 (amended): the same for 0 <= k <= 19: the scan inspects the anchor and
\* its first 19 ancestors, the tipset at hop 20 is loaded but not inspected.
C8_ScanFinds ==
    (ScanEnded /\ AllCallsOk) =>
        \A k \in 0..19 :
            NearestAtHop(k) =>
                /\ Succeeded
                /\ rq.baseTs = rq.anchor - k
                /\ rq.be = FirstCarried(rq.anchor - k, rq.target)

C8_Witness ==
    /\ ScanEnded /\ AllCallsOk /\ Succeeded
    /\ NearestAtHop(19)
    /\ rq.baseTs = rq.anchor - 19

NoCarrierWithin(n) ==
    \A k \in 0..n : rq.anchor - k >= 1 => ~CarriesRound(rq.anchor - k, rq.target)

\* C9 (as claimed): under the newest algorithm, when no tipset within 20 hops
\* of the anchor carries the target round in its first block and the store
\* is available, the request fails with the beacon-entry-not-found error.
C9_ScanFails_Claimed ==
    (ScanEnded /\ NoCarrierWithin(20) /\ rq.err.cause \notin StoreErrors) =>
        /\ rq.result = Nil
        /\ rq.err = Err("beaconNotFound", "nil")

\* C9 (amended): under the newest algorithm, when no tipset within 20 hops of
\* the anchor carries the target round in its first block, the request fails
\* and returns no randomness: with the beacon-entry-not-found error when the
\* 20 parent loads of the scan succeed, and with the parent-load error when
\* one of them fails, as the load of the parent of the genesis tipset does
\* for an anchor with fewer than 20 ancestors.
C9_ScanFails ==
    (ScanEnded /\ NoCarrierWithin(20)) =>
        /\ rq.result = Nil
        /\ IF AllCallsOk
           THEN rq.err = Err("beaconNotFound", "nil") /\ rq.anchor > 20
           ELSE /\ rq.err.kind = "parentLoad"
                /\ ~rq.calls[Len(rq.calls)].ok
                /\ rq.calls[Len(rq.calls)].fn = "LoadTipSet"

C9_Witness ==
    /\ ScanEnded /\ NoCarrierWithin(20)
    /\ rq.err = Err("beaconNotFound", "nil")
    /\ rq.anchor - 21 >= 1
    /\ CarriesRound(rq.anchor - 21, rq.target)

\* C10: the backward scan walks from the anchor to its ancestors one parent
\* at a time and looks at first blocks only: the entry it returns is the first
\* entry of the target round in the first block of the nearest tipset that
\* carries one, and is never an entry of another block.
C10_ScanOrder ==
    /\ rq.pc = "scan" =>
          /\ rq.randTs = rq.anchor - rq.i
          /\ \A k \in (rq.randTs + 1)..rq.anchor : ~CarriesRound(k, rq.target)
    /\ (Succeeded /\ rq.alg = "V3") =>
          /\ rq.baseTs \in 1..rq.anchor
          /\ CarriesRound(rq.baseTs, rq.target)
          /\ rq.be = FirstCarried(rq.baseTs, rq.target)
          /\ \A k \in (rq.baseTs + 1)..rq.anchor : ~CarriesRound(k, rq.target)
          /\ \A k \in 1..Len(chain) : ~InOtherBlock(k, rq.be)

C10_Witness ==
    /\ Succeeded /\ rq.alg = "V3"
    /\ rq.baseTs < rq.anchor
    /\ \E k \in 1..(rq.baseTs - 1) : CarriesRound(k, rq.target)
    /\ \E k \in (rq.baseTs + 1)..rq.anchor :
          \E j \in DOMAIN Blocks(k)[2].BeaconEntries :
              Blocks(k)[2].BeaconEntries[j].Round = rq.target


\* the loads of a parent tipset made so far by the request r
ParentLoads(r) ==
    LET loads == {n \in DOMAIN r.calls : r.calls[n].fn = "LoadTipSet"}
    IN  IF loads = {} THEN 0 ELSE Cardinality(loads) - 1

\* C11: a GetBeaconRandomness request under the newest algorithm makes at
\* most 20 loads of a parent tipset, whatever the chain behind the anchor
\* (also one on which the round never appears), and, every collaborator call
\* returning, it ends.
C11_ScanTerminates ==
    /\ [](rq.alg = "V3" =>
            /\ ParentLoads(rq) <= ScanBound
            /\ rq.i <= ScanBound
            /\ rq.pc = "scan" => ParentLoads(rq) = rq.i)
    /\ ((rq.alg = "V3" /\ rq.pc # "done") ~> (rq.pc = "done"))

C11_Witness ==
    /\ rq.alg = "V3" /\ rq.pc = "done"
    /\ ParentLoads(rq) = ScanBound
    /\ AllCallsOk
    /\ rq.err = Err("beaconNotFound", "nil")
    /\ \A k \in 1..Len(chain) : ~CarriesRound(k, rq.target)

\* C12: a GetBeaconRandomness request for a negative epoch whose version is
\* V14 or later runs as the V13 path does: the anchor is searched without
\* lookback at height 0, the base is the latest beacon entry of the anchor,
\* neither MaxBeaconRoundForEpoch nor the backward scan is used, and the
\* request returns randomness whenever its collaborator calls succeed.
C12_NegativeEpochV14 ==
    (rq.op = "beacon" /\ networkVersionGetter(rq.round) >= Version14 /\ rq.round < 0) =>
        /\ rq.alg = "V3toV2"
        /\ ~rq.lookback
        /\ \A n \in DOMAIN rq.calls :
              /\ rq.calls[n].fn # "MaxBeaconRoundForEpoch"
              /\ rq.calls[n].fn = "GetTipsetByHeight" =>
                    rq.calls[n].arg = 0 /\ ~rq.calls[n].lookback
        /\ rq.pc # "scan" /\ rq.i = 0 /\ ParentLoads(rq) = 0
        /\ rq.anchor # 0 => rq.anchor = AtOrAfter(0, rq.ts)
        /\ (rq.pc = "done" /\ AllCallsOk) => Succeeded
        /\ Succeeded =>
              LET x == GetLatestBeaconEntry(rq.anchor)
              IN  /\ HasCall("GetLatestBeaconEntry")
                  /\ rq.be = x.be /\ rq.baseTs = x.at
                  /\ rq.result = DrawRandomness(x.be.Data, rq.pers, rq.round, rq.entropy)

C12_Witness ==
    /\ Succeeded /\ rq.op = "beacon" /\ rq.round < 0
    /\ networkVersionGetter(rq.round) >= Version14
    /\ Height(rq.ts) > 0 /\ Height(rq.anchor) = 0
    /\ rq.be.Round # RoundOf(rq.round)

\* C13: the path of a request is a function of the version that the version
\* getter reports for the target epoch, and of nothing else about the node:
\* every call of the version getter within the request hands over the target
\* epoch, and the lookback flag and the algorithm are those of that version,
\* whatever the head of the store and the version in force there.
C13_ReplayStable ==
    rq.pc # "idle" =>
        LET v == networkVersionGetter(rq.round)
        IN  /\ HasCall("networkVersionGetter")
            /\ \A n \in DOMAIN rq.calls :
                  rq.calls[n].fn = "networkVersionGetter" => rq.calls[n].arg = rq.round
            /\ rq.op = "chain" => rq.lookback = (v < Version13)
            /\ rq.op = "beacon" =>
                  /\ rq.alg = IF v >= Version14
                              THEN (IF rq.round < 0 THEN "V3toV2" ELSE "V3")
                              ELSE IF v = Version13 THEN "V2" ELSE "V1"
                  /\ rq.lookback = (v < Version13)

C13_Witness ==
    /\ Succeeded /\ rq.op = "beacon" /\ rq.alg = "V1"
    /\ networkVersionGetter(Height(rq.ts)) >= Version14
    /\ networkVersionGetter(Height(head)) >= Version14
    /\ rq.headAtStart # head

\* a call of the request r failed with an error of the store's transport
StoreFailed(r) == \E n \in DOMAIN r.calls : r.calls[n].cause \in StoreErrors

\* what a request returns, as a function of the fields of the source and of
\* the arguments of the request alone, when no call fails in the transport
Derive(op, pers, e, entropy) ==
    LET ts == sr.blks
        v == networkVersionGetter(e)
        draw(base) == [result |-> DrawRandomness(base, pers, e, entropy), err |-> NoErr]
        fail(err) == [result |-> Nil, err |-> err]
    IN  IF e > Height(ts) THEN fail(Err("future", "nil"))
        ELSE LET a == IF v < Version13 THEN AtOrBefore(Clamp(e), ts)
                      ELSE AtOrAfter(Clamp(e), ts)
                 x == GetLatestBeaconEntry(a)
                 t == RoundOf(e)
                 lo == IF a - (ScanBound - 1) < 1 THEN 1 ELSE a - (ScanBound - 1)
                 carriers == {k \in lo..a : CarriesRound(k, t)}
                 near == CHOOSE k \in carriers : \A j \in carriers : j <= k
             IN  IF op = "chain"
                 THEN draw(MinTicketBlock(a).Ticket.VRFProof)
                 ELSE IF v >= Version14 /\ e >= 0
                      THEN IF carriers # {} THEN draw(FirstCarried(near, t).Data)
                           ELSE IF a <= ScanBound
                                THEN fail(Err("parentLoad", "notfound"))
                                ELSE fail(Err("beaconNotFound", "nil"))
                      ELSE IF x.ok THEN draw(x.be.Data) ELSE fail(x.err)

Returned(r) == [result |-> r.result, err |-> r.err]

\* no step of a request writes anything but the request itself
RequestFrame ==
    rq' # rq => UNCHANGED <<chain, head, nvSched, consensus, warnings, sr, rq2>>

\* C14: the derivation is pure.  What a request returns is a function of the
\* fields of the source (cs, blks, beacon schedule, version getter) and of the
\* request's arguments, so repeating it after any earlier requests returns
\* the same; no step of a request writes a field of the source or any other
\* state, and a source once built is never written again.
C14_Pure ==
    /\ []((rq.pc = "done" /\ ~StoreFailed(rq)) =>
             Returned(rq) = Derive(rq.op, rq.pers, rq.round, rq.entropy))
    /\ [][RequestFrame]_vars
    /\ [][sr # NoSource => UNCHANGED <<sr, chain, nvSched, consensus, warnings>>]_vars

C14_Witness ==
    /\ Succeeded /\ rq.alg = "V3" /\ rq.baseTs < rq.anchor
    /\ rq.headAtStart # head
    /\ sr.blks # head

\* C15: no failure is swallowed and no default stands in for a missing
\* value.  A request whose head load, by-height lookup, latest-beacon-entry
\* lookup or parent load failed, whose scan used up its 20 iterations, or
\* whose epoch is in the future, returns an error and no bytes; a request
\* never returns both bytes and an error; the bytes it returns are the
\* digest drawn from a base read off the chain after calls that all succeeded.
C15_NoSwallowedError ==
    /\ rq.pc # "done" => (rq.result = Nil /\ rq.err = NoErr)
    /\ rq.pc = "done" =>
          LET last == rq.calls[Len(rq.calls)]
              future == rq.ts # 0 /\ rq.round > Height(rq.ts)
              exhausted == rq.alg = "V3" /\ rq.i = ScanBound
          IN  /\ (rq.result = Nil) # (rq.err = NoErr)
              /\ (~AllCallsOk \/ future \/ exhausted) => (rq.result = Nil /\ rq.err # NoErr)
              /\ ~AllCallsOk =>
                    /\ rq.err.kind = IF last.fn = "LoadTipSet" /\ ParentLoads(rq) > 0
                                     THEN "parentLoad" ELSE "store"
                    /\ rq.err.cause = last.cause
              /\ (AllCallsOk /\ future) => rq.err = Err("future", "nil")
              /\ (AllCallsOk /\ exhausted) => rq.err = Err("beaconNotFound", "nil")
              /\ rq.err = NoErr =>
                    /\ rq.baseTs \in 1..rq.ts
                    /\ rq.base = IF rq.op = "chain"
                                 THEN MinTicketBlock(rq.baseTs).Ticket.VRFProof
                                 ELSE rq.be.Data
                    /\ rq.op = "beacon" =>
                          \E b \in DOMAIN Blocks(rq.baseTs) :
                              \E j \in DOMAIN Blocks(rq.baseTs)[b].BeaconEntries :
                                  Blocks(rq.baseTs)[b].BeaconEntries[j] = rq.be
                    /\ rq.result = DrawRandomness(rq.base, rq.pers, rq.round, rq.entropy)

C15_Witness ==
    /\ rq.pc = "done" /\ rq.op = "beacon" /\ rq.alg = "V2"
    /\ rq.calls[Len(rq.calls)].fn = "GetLatestBeaconEntry"
    /\ ~rq.calls[Len(rq.calls)].ok
    /\ rq.err = Err("store", "unavailable")
    /\ rq.result = Nil
    /\ GetLatestBeaconEntry(rq.anchor).ok

StoreCalls == {"LoadTipSet", "GetTipsetByHeight", "GetLatestBeaconEntry"}

\* C16: nothing is retried.  A collaborator call that failed is the last
\* call of its request, and so is the load of the starting tipset when the
\* epoch turns out to be in the future; the request has then ended and makes
\* no further call before it returns; no call to the store is made twice
\* with the same arguments within a request.
C16_NoRetry ==
    /\ [](/\ \A n \in DOMAIN rq.calls :
                ~rq.calls[n].ok => (n = Len(rq.calls) /\ rq.pc = "done")
          /\ (rq.ts # 0 /\ rq.round > Height(rq.ts)) =>
                /\ rq.pc = "done"
                /\ rq.calls[Len(rq.calls)].fn = "LoadTipSet"
                /\ ParentLoads(rq) = 0
                /\ ~HasCall("GetTipsetByHeight")
          /\ \A n, m \in DOMAIN rq.calls :
                (/\ n # m
                 /\ rq.calls[n].fn \in StoreCalls
                 /\ rq.calls[n].fn = rq.calls[m].fn) => rq.calls[n].arg # rq.calls[m].arg)
    /\ [][rq.pc = "done" => (rq' = rq \/ rq' = Idle)]_vars

C16_Witness ==
    /\ rq.pc = "done" /\ rq.alg = "V3"
    /\ ParentLoads(rq) >= 3
    /\ ~rq.calls[Len(rq.calls)].ok
    /\ rq.calls[Len(rq.calls)].cause = "unavailable"
    /\ Parents(rq.randTs) # 0

\* C17: a cancellation or timeout error returned by a call to the chain
\* store ends the request with an error from which the cancellation can
\* still be told: the store's error itself, or, for a parent load of the
\* scan, that error wrapped.  The error is neither the future error nor the
\* not-found error, no bytes are returned, and the call is not made again.
C17_CancellationPropagates ==
    \A n \in DOMAIN rq.calls :
        rq.calls[n].cause = "cancelled" =>
            /\ n = Len(rq.calls) /\ rq.pc = "done"
            /\ rq.result = Nil
            /\ rq.err.cause = "cancelled"
            /\ rq.err.kind \notin {"future", "beaconNotFound"}
            /\ rq.err = IF rq.calls[n].fn = "LoadTipSet" /\ n > 2
                        THEN Err("parentLoad", "cancelled")
                        ELSE Err("store", "cancelled")

C17_Witness ==
    /\ rq.pc = "done" /\ rq.alg = "V3"
    /\ rq.calls[Len(rq.calls)].cause = "cancelled"
    /\ ParentLoads(rq) >= 2
    /\ rq.err = Err("parentLoad", "cancelled")

\* C18: a request never resolves the head of the store.  The tipset it
\* starts from is the one of the block key fixed when the source was built,
\* every other tipset it touches lies behind that one and is reached parent
\* by parent, and a head advance, at whatever point of the request, changes
\* neither the request nor what it returns.
C18_HeadNotResolved ==
    /\ [](rq.pc # "idle" =>
            LET loads == {n \in DOMAIN rq.calls : rq.calls[n].fn = "LoadTipSet"}
                first == CHOOSE n \in loads : \A m \in loads : n <= m
            IN  /\ rq.ts \in {0, sr.blks}
                /\ loads # {} =>
                      /\ rq.calls[first].arg = sr.blks
                      /\ \A n \in loads \ {first} :
                            /\ rq.calls[n].arg < rq.anchor
                            /\ rq.calls[n].arg =
                                  rq.anchor - Cardinality({m \in loads : m < n})
                /\ \A k \in {rq.anchor, rq.randTs, rq.baseTs} : k \in 0..sr.blks
                /\ (rq.pc = "done" /\ ~StoreFailed(rq)) =>
                      Returned(rq) = Derive(rq.op, rq.pers, rq.round, rq.entropy))
    /\ [][head' # head => (rq' = rq /\ sr' = sr)]_vars

C18_Witness ==
    /\ rq.pc = "done" /\ rq.err = Err("future", "nil")
    /\ rq.headAtStart = sr.blks /\ head # rq.headAtStart
    /\ rq.ts = sr.blks
    /\ rq.round <= Height(head)

\* a step changes one request and nothing that the other request reads
OneRequestSteps ==
    /\ rq' # rq => UNCHANGED <<chain, head, nvSched, consensus, warnings, sr, rq2>>
    /\ rq2' # rq2 => UNCHANGED <<chain, head, nvSched, consensus, warnings, sr, rq>>

\* C19: two requests in flight on the same source, their steps interleaved
\* in any order and without a lock, each return what they return when run
\* alone: the function of the source's fields and of their own arguments;
\* no step of one writes the other request or the source.
C19_ConcurrentRequests ==
    /\ [](\A r \in {rq, rq2} :
            (r.pc = "done" /\ ~StoreFailed(r)) =>
                Returned(r) = Derive(r.op, r.pers, r.round, r.entropy))
    /\ [][OneRequestSteps]_vars

C19_Witness ==
    /\ rq.pc = "scan" /\ rq.i >= 1
    /\ rq2.pc = "scan" /\ rq2.i >= 1
    /\ rq.target # rq2.target
    /\ rq.randTs # rq2.randTs

\* NewStateRand builds the fake source exactly when the flag says Mir
BuiltByFlag ==
    (sr = NoSource /\ sr' # NoSource) =>
        /\ (sr'.kind = "fakeRand") <=> IsConsensusAlgorithm("mir")
        /\ (sr'.kind = "stateRand") <=> ~IsConsensusAlgorithm("mir")

Be64(x) ==
    LET s == IF x < 0 THEN 255 ELSE 0
    IN  << s, s, s, s,
           (x \div 16777216) % 256, (x \div 65536) % 256, (x \div 256) % 256, x % 256 >>

\* the bytes a finished call fed to the outer hash
Preimage(r) == r.result[1].blake2b

Drawn(r) == r.pc = "done" /\ r.op = "draw"

\* C22: DrawRandomness(base, tag, round, entropy) returns one digest, that of
\* be64(tag) || H(base) || be64(round) || entropy: the four fields in this
\* order, tag and round as signed 64-bit big-endian integers, the base
\* hashed once on its own.
C22_DrawStructure ==
    \A r \in {rq, rq2} :
        Drawn(r) =>
            /\ Len(r.result) = 1
            /\ DOMAIN r.result[1] = {"blake2b"}
            /\ Len(Preimage(r)) = 8 + 1 + 8 + Len(r.entropy)
            /\ SubSeq(Preimage(r), 1, 8) = Be64(r.pers)
            /\ Preimage(r)[9] = Sum256(r.base)
            /\ Preimage(r)[9] # r.base
            /\ SubSeq(Preimage(r), 10, 17) = Be64(r.round)
            /\ SubSeq(Preimage(r), 18, Len(Preimage(r))) = r.entropy

C22_Witness ==
    /\ Drawn(rq) /\ rq.round < 0 /\ rq.pers = 257 /\ rq.entropy = << 7 >>
    /\ rq.base = 1
    /\ Preimage(rq) = << 0, 0, 0, 0, 0, 0, 1, 1, 257,
                         255, 255, 255, 255, 255, 255, 255, 256 - MaxRound, 7 >>

\* C23: for the same base, tag and entropy, DrawRandomness with round r and
\* with round -r, r # 0, feeds different bytes to the hash, so the outputs
\* differ: so it is for -5 and 5.
C23_SignedRound ==
    (/\ Drawn(rq) /\ Drawn(rq2)
     /\ rq.base = rq2.base /\ rq.pers = rq2.pers /\ rq.entropy = rq2.entropy
     /\ rq.round # 0 /\ rq.round = 0 - rq2.round) =>
        /\ SubSeq(Preimage(rq), 10, 17) # SubSeq(Preimage(rq2), 10, 17)
        /\ Preimage(rq) # Preimage(rq2)
        /\ rq.result # rq2.result

C23_Witness ==
    /\ Drawn(rq) /\ Drawn(rq2)
    /\ rq.base = rq2.base /\ rq.pers = rq2.pers /\ rq.entropy = rq2.entropy
    /\ rq.round = 0 - 5 /\ rq2.round = 5
    /\ SubSeq(Preimage(rq), 10, 17) = << 255, 255, 255, 255, 255, 255, 255, 251 >>
    /\ SubSeq(Preimage(rq2), 10, 17) = << 0, 0, 0, 0, 0, 0, 0, 5 >>

\* C24: on every path (chain, beacon V1, V2, V3 and the fallback for epochs
\* before genesis) the tag, round and entropy written to the hash are those
\* of the caller; the round is the epoch asked for, not the height searched
\* for nor the height of the anchor, so a request for an epoch before genesis
\* and one for epoch 0 share the anchor and differ in the bytes of the round.
C24_CallerValues ==
    Succeeded =>
        /\ SubSeq(Preimage(rq), 1, 8) = Be64(rq.pers)
        /\ SubSeq(Preimage(rq), 10, 17) = Be64(rq.round)
        /\ SubSeq(Preimage(rq), 18, Len(Preimage(rq))) = rq.entropy
        /\ Preimage(rq)[9] = Sum256(rq.base)
        /\ rq.round < 0 =>
              /\ rq.anchor = AtOrAfter(0, rq.ts) /\ rq.anchor = AtOrBefore(0, rq.ts)
              /\ SubSeq(Preimage(rq), 10, 17) # Be64(0)
              /\ rq.result # DrawRandomness(rq.base, rq.pers, 0, rq.entropy)
        /\ Height(rq.anchor) # rq.round =>
              SubSeq(Preimage(rq), 10, 17) # Be64(Height(rq.anchor))

C24_Witness ==
    /\ Succeeded /\ rq.alg = "V3toV2" /\ rq.round < 0
    /\ Height(rq.anchor) = 0
    /\ rq.pers = 2 /\ rq.entropy = << 7 >>
    /\ SubSeq(Preimage(rq), 10, 17) = Be64(0 - PreGenesis)

\* C26: under a version below V13, with the starting tipset above
\* ScenarioEpoch (100) and the ScenarioGap (3) epochs up to and including it
\* all null rounds, GetBeaconRandomness for that epoch takes the tipset just
\* below the gap (height 97) as anchor, the anchor's latest beacon entry as
\* base, and writes round 100 with the caller's tag and entropy; the output is
\* this function of the chain and the arguments on every evaluation.
C26_ScenarioA ==
    (/\ rq.op = "beacon" /\ rq.round = ScenarioEpoch /\ Succeeded
     /\ networkVersionGetter(rq.round) < Version13
     /\ Height(rq.ts) >= ScenarioEpoch
     /\ \A e \in (ScenarioEpoch - ScenarioGap + 1)..ScenarioEpoch : NullRound(e, rq.ts)) =>
        /\ Height(rq.anchor) = ScenarioEpoch - ScenarioGap
        /\ rq.be = GetLatestBeaconEntry(rq.anchor).be
        /\ rq.base = rq.be.Data
        /\ rq.result = DrawRandomness(rq.be.Data, rq.pers, ScenarioEpoch, rq.entropy)
        /\ SubSeq(Preimage(rq), 1, 8) = Be64(rq.pers)
        /\ SubSeq(Preimage(rq), 10, 17) = Be64(ScenarioEpoch)
        /\ SubSeq(Preimage(rq), 18, Len(Preimage(rq))) = rq.entropy

C26_Witness ==
    /\ rq.op = "beacon" /\ rq.round = ScenarioEpoch /\ Succeeded
    /\ rq.alg = "V1" /\ rq.pers = 2 /\ rq.entropy = << 7 >>
    /\ Height(rq.ts) = ScenarioEpoch + 1
    /\ Height(rq.anchor) = ScenarioEpoch - ScenarioGap
    /\ Height(rq.baseTs) = Height(rq.anchor)

\* the last call of the request r is a parent load that failed
ParentLoadFailed(r) ==
    /\ r.calls # << >>
    /\ r.calls[Len(r.calls)].fn = "LoadTipSet"
    /\ ~r.calls[Len(r.calls)].ok
    /\ ParentLoads(r) >= 1

\* C27: when a parent load of the backward scan fails, the request ends with
\* the parent-load error around the store's error, not with the not-found
\* error.  So it is for an anchor with fewer than 20 ancestors, whose scan
\* finds no match down to genesis and fails on the load of the empty key,
\* and for a failure of the load made in the 20th iteration; the tipset that
\* load returns when it succeeds is never looked at.
C27_ParentLoadError ==
    (rq.alg = "V3" /\ rq.pc = "done") =>
        /\ ParentLoadFailed(rq) =>
              /\ rq.err = Err("parentLoad", rq.calls[Len(rq.calls)].cause)
              /\ rq.result = Nil
        /\ (/\ rq.anchor # 0 /\ rq.anchor <= ScanBound /\ ~StoreFailed(rq)
            /\ \A k \in 1..rq.anchor : ~CarriesRound(k, rq.target)) =>
              /\ ParentLoadFailed(rq)
              /\ ParentLoads(rq) = rq.anchor
              /\ rq.err = Err("parentLoad", "notfound")
        /\ (ParentLoads(rq) = ScanBound /\ AllCallsOk) =>
              /\ rq.err = Err("beaconNotFound", "nil")
              /\ rq.randTs = rq.anchor - ScanBound
        /\ Succeeded => rq.baseTs > rq.anchor - ScanBound

C27_Witness ==
    /\ rq.alg = "V3" /\ rq.pc = "done"
    /\ ParentLoads(rq) = ScanBound
    /\ ParentLoadFailed(rq)
    /\ rq.calls[Len(rq.calls)].cause = "cancelled"
    /\ rq.err = Err("parentLoad", "cancelled")
    /\ rq.anchor - ScanBound >= 1
    /\ CarriesRound(rq.anchor - ScanBound, rq.target)

\* what DrawRandomness encodes: tag, digest of the base, round, entropy
Tuple(r) == << r.pers, Sum256(r.base), r.round, r.entropy >>

\* C28: the bytes DrawRandomness feeds to the outer hash encode the tuple
\* (tag, digest of the base, round, entropy) injectively: two calls whose
\* tuples differ in a component, be it only the tag, feed different bytes.
C28_InjectivePreimage ==
    (Drawn(rq) /\ Drawn(rq2) /\ Tuple(rq) # Tuple(rq2)) =>
        /\ Preimage(rq) # Preimage(rq2)
        /\ rq.result # rq2.result

C28_Witness ==
    /\ Drawn(rq) /\ Drawn(rq2)
    /\ rq.pers = 1 /\ rq2.pers = 257
    /\ rq.base = rq2.base /\ rq.round = rq2.round /\ rq.entropy = rq2.entropy
    /\ rq.entropy = << 0 >>
    /\ Preimage(rq) # Preimage(rq2)

\* the tipset behind ts whose height is exactly h, or 0 when h is a null round
ExactAt(h, ts) ==
    IF \E k \in 1..ts : Height(k) = h
    THEN CHOOSE k \in 1..ts : Height(k) = h
    ELSE 0

\* C29: when a tipset behind the starting tipset has exactly the height
\* max(E, 0), the lookback flag has no effect: the anchor is that tipset
\* under either flag, GetChainRandomness for E returns the draw from its
\* ticket below V13 and from V13 on, and GetBeaconRandomness for E returns
\* the draw from its latest beacon entry below V13 and under V13.
C29_LookbackIrrelevant ==
    (/\ rq.pc = "done" /\ ~StoreFailed(rq)
     /\ rq.ts # 0 /\ rq.round <= Height(rq.ts)
     /\ rq.op = "chain" \/ rq.alg \in {"V1", "V2"}
     /\ ExactAt(Clamp(rq.round), rq.ts) # 0) =>
        LET k == ExactAt(Clamp(rq.round), rq.ts)
            x == GetLatestBeaconEntry(k)
            draw(base) == [result |-> DrawRandomness(base, rq.pers, rq.round, rq.entropy),
                           err |-> NoErr]
        IN  /\ GetTipsetByHeight(Clamp(rq.round), rq.ts, TRUE).ts = k
            /\ GetTipsetByHeight(Clamp(rq.round), rq.ts, FALSE).ts = k
            /\ rq.anchor = k
            /\ Returned(rq) = IF rq.op = "chain"
                              THEN draw(MinTicketBlock(k).Ticket.VRFProof)
                              ELSE IF x.ok THEN draw(x.be.Data)
                                   ELSE [result |-> Nil, err |-> x.err]

C29_Witness ==
    /\ Succeeded /\ rq.op = "chain" /\ rq.lookback
    /\ rq.round > 0 /\ Height(rq.anchor) = rq.round
    /\ \E e \in 1..Height(rq.ts) : NullRound(e, rq.ts)
    /\ rq.ts = Len(chain)

\* the number of calls of fn made so far by the request
CallsOf(fn) == Cardinality({n \in DOMAIN rq.calls : rq.calls[n].fn = fn})

\* C30: each path touches its own collaborators only.  Chain requests and
\* beacon requests below V14 (or, from V14 on, for an epoch before genesis)
\* never ask the beacon schedule and never load a parent; a beacon request
\* from V14 on for an epoch >= 0 never asks for the latest beacon entry;
\* chain requests never read beacon entries and beacon requests never read
\* a ticket.
C30_PathFrames ==
    rq.op \in {"chain", "beacon"} =>
        LET v == networkVersionGetter(rq.round)
            newest == rq.op = "beacon" /\ v >= Version14 /\ rq.round >= 0
        IN  /\ ~newest =>
                  /\ ~HasCall("MaxBeaconRoundForEpoch")
                  /\ ParentLoads(rq) = 0
                  /\ ~HasCall("BeaconEntries")
                  /\ rq.pc # "scan" /\ rq.i = 0
            /\ newest =>
                  /\ ~HasCall("GetLatestBeaconEntry")
                  /\ rq.pc # "latest"
                  /\ rq.anchor # 0 => CallsOf("MaxBeaconRoundForEpoch") = 1
            /\ rq.op = "chain" =>
                  /\ ~HasCall("GetLatestBeaconEntry")
                  /\ rq.be = NoEntry
                  /\ Succeeded =>
                        /\ CallsOf("MinTicketBlock") = 1
                        /\ rq.base = MinTicketBlock(rq.anchor).Ticket.VRFProof
            /\ rq.op = "beacon" =>
                  /\ ~HasCall("MinTicketBlock")
                  /\ Succeeded => rq.base = rq.be.Data

C30_Witness ==
    /\ Succeeded /\ rq.op = "beacon"
    /\ networkVersionGetter(rq.round) >= Version14 /\ rq.round >= 0
    /\ ParentLoads(rq) >= 2
    /\ CallsOf("BeaconEntries") = ParentLoads(rq) + 1
    /\ ~HasCall("GetLatestBeaconEntry") /\ ~HasCall("MinTicketBlock")
====
